---------------------------- MODULE Spec2Model ----------------------------
(***************************************************************************)
(* A model of the parameter registry that the macros of src/macros.rs      *)
(* generate from a parameter table: the index <-> ParameterId conversions, *)
(* the store of AtomicFloat cells, the typed get/set with its edit bracket *)
(* and the index-addressed PluginParameters facade.                        *)
(*                                                                         *)
(* An f32 is modelled by its bit pattern, split in the sign bit and the    *)
(* 31 remaining bits (exponent and mantissa), so that +0.0, -0.0 and NaN   *)
(* are distinct values and `==` on f32 is IEEE-754 equality, not equality  *)
(* of bit patterns.                                                        *)
(***************************************************************************)
EXTENDS Integers, Sequences, FiniteSets, TLC

VARIABLES
    table,      \* the parameter table handed to the macros, one row per variant
    cells,      \* the store: field name -> bits held by its AtomicFloat
    hostLog,    \* what the HostCallback has received: begin_edit / end_edit
    last,       \* Spec: the last completed call, its arguments, result, events
    pc,         \* SpecConc: per thread, the step its call is about to take
    arg,        \* SpecConc: per thread, the call in progress (or last made)
    evs         \* SpecConc: per thread, the events of that call, in order

vars == <<table, cells, hostLog, last, pc, arg, evs>>

---------------------------------------------------------------------------
(* Bounds of the model.                                                    *)

\* Indices the host may pass are -1 .. MaxIndex; table rows use 0 .. MaxIndex.
MaxIndex == 2
\* The host log is cut after this many edit brackets.
MaxEdits == 2

---------------------------------------------------------------------------
(* f32 by bit pattern.                                                     *)

PosZero      == [sign |-> 0, mag |-> 0]
NegZero      == [sign |-> 1, mag |-> 0]
Half         == [sign |-> 0, mag |-> 1056964608]   \* 0x3F000000  0.5
One          == [sign |-> 0, mag |-> 1065353216]   \* 0x3F800000  1.0
OnePointFive == [sign |-> 0, mag |-> 1069547520]   \* 0x3FC00000  1.5
PosInf       == [sign |-> 0, mag |-> 2139095040]   \* 0x7F800000
NaN          == [sign |-> 0, mag |-> 2143289344]   \* 0x7FC00000

IsNaN(v) == v.mag > PosInf.mag

\* f32 `==`: no NaN is equal to anything, the two zeros are equal.
FloatEq(a, b) ==
    /\ ~IsNaN(a)
    /\ ~IsNaN(b)
    /\ \/ a = b
       \/ a.mag = 0 /\ b.mag = 0

FloatKey(v) == IF v.sign = 0 THEN v.mag ELSE 0 - v.mag

\* f32 `<=`
FloatLe(a, b) == ~IsNaN(a) /\ ~IsNaN(b) /\ FloatKey(a) <= FloatKey(b)

\* 0.0 <= v <= 1.0
InUnit(v) == FloatLe(PosZero, v) /\ FloatLe(v, One)

\* format!("{:.2}", value) on the values of the model
Format2(v) ==
    CASE IsNaN(v)         -> "NaN"
      [] v = PosInf       -> "inf"
      [] v = PosZero      -> "0.00"
      [] v = NegZero      -> "-0.00"
      [] v = Half         -> "0.50"
      [] v = One          -> "1.00"
      [] v = OnePointFive -> "1.50"
      [] OTHER            -> "?"

make_strings(value, label) == <<Format2(value), label>>

\* The values a caller passes, and the defaults the rows of a table may give.
Values   == {NegZero, Half, OnePointFive, NaN}
DefaultRows == { <<Half, PosZero>> }

AtomicFloat_new(value) == value
AtomicFloat_get(cell)  == cell
AtomicFloat_set(cell, value) == value

---------------------------------------------------------------------------
(* The parameter table.                                                    *)

ParameterId == {"Volume", "Pan"}
Fields      == {"volume", "pan"}
IndexRange  == (0 - 1) .. MaxIndex
TableIdx    == 0 .. MaxIndex

Row(variant, idx, name, field, default, label) ==
    [variant |-> variant, idx |-> idx, name |-> name, field |-> field,
     default |-> default, label |-> label]

\* The tables the macros are instantiated with: one row per variant, no index
\* used by two rows, every default normalized.
Tables ==
    { << Row("Volume", i1, "Master Volume", "volume", d[1], "%"),
         Row("Pan",    i2, "Pan",           "pan",    d[2], "") >> :
        <<i1, i2, d>> \in
            { q \in TableIdx \X TableIdx \X DefaultRows : q[1] # q[2] } }

\* The first arm of a `match` that matches, 0 for none: hits[k] says whether
\* the pattern of arm k matches.
FirstArm(hits) ==
    IF \A k \in DOMAIN hits : ~hits[k]
    THEN 0
    ELSE CHOOSE k \in DOMAIN hits : hits[k] /\ \A j \in 1 .. (k - 1) : ~hits[j]

Ok(variant) == [ok |-> TRUE, val |-> variant]
Err         == [ok |-> FALSE, val |-> ""]

\* try_from with every $idx off by one
try_from_off(tbl, x) ==
    LET k == FirstArm([a \in 1 .. Len(tbl) |-> tbl[a].idx = x + 1])
    IN  IF k = 0 THEN Err ELSE Ok(tbl[k].variant)

\* impl TryFrom<i32> for ParameterId
try_from(tbl, x) ==
    LET k == FirstArm([a \in 1 .. Len(tbl) |-> tbl[a].idx = x])
    IN  IF k = 0 THEN Err ELSE Ok(tbl[k].variant)

ArmOf(tbl, x) == FirstArm([a \in 1 .. Len(tbl) |-> tbl[a].variant = x])

\* into() giving the position of the row instead of its $idx
into_i32_position(tbl, x) == ArmOf(tbl, x) - 1

\* impl From<ParameterId> for i32
into_i32(tbl, x) == tbl[ArmOf(tbl, x)].idx

\* impl Display for ParameterId
to_string(tbl, x) == tbl[ArmOf(tbl, x)].name

\* get_ref: the AtomicFloat field of the variant
get_ref(tbl, x) == tbl[ArmOf(tbl, x)].field

get_default(tbl, x) == tbl[ArmOf(tbl, x)].default

\* default() with every field AtomicFloat::new(0.0)
default_zeroed(tbl) ==
    [f \in { tbl[k].field : k \in 1 .. Len(tbl) } |-> AtomicFloat_new(PosZero)]

\* default(host): every field an AtomicFloat holding its row's default
default(tbl) ==
    [f \in { tbl[k].field : k \in 1 .. Len(tbl) } |->
        AtomicFloat_new(
            tbl[FirstArm([a \in 1 .. Len(tbl) |-> tbl[a].field = f])].default)]


---------------------------------------------------------------------------
(* The store: typed access.                                                *)

\* What a call did, in order: host notifications and writes of cells.
BeginEv(index)      == [kind |-> "begin_edit", index |-> index, field |-> "", value |-> PosZero]
StoreEv(field, v)   == [kind |-> "store", index |-> 0, field |-> field, value |-> v]
EndEv(index)        == [kind |-> "end_edit", index |-> index, field |-> "", value |-> PosZero]

\* HostCallback::begin_edit / end_edit, as the host sees them
host_begin_edit(log, index) == Append(log, [kind |-> "begin_edit", index |-> index])
host_end_edit(log, index)   == Append(log, [kind |-> "end_edit", index |-> index])

\* the write going to the field of the first row
store_first(tbl, cs, value, parameter) ==
    [cs EXCEPT ![tbl[1].field] = AtomicFloat_set(@, value)]

\* self.get_ref(parameter).set(value)
store(tbl, cs, value, parameter) ==
    [cs EXCEPT ![get_ref(tbl, parameter)] = AtomicFloat_set(@, value)]

\* get(&self, parameter)
get(tbl, cs, parameter) == AtomicFloat_get(cs[get_ref(tbl, parameter)])

\* set() writing the value with its sign flipped
set_negated(tbl, cs, log, value, parameter) ==
    LET neg == [value EXCEPT !.sign = 1 - @]
    IN  [cells  |-> store(tbl, cs, neg, parameter),
         host   |-> host_end_edit(host_begin_edit(log, into_i32(tbl, parameter)),
                                  into_i32(tbl, parameter)),
         events |-> << BeginEv(into_i32(tbl, parameter)),
                       StoreEv(get_ref(tbl, parameter), neg),
                       EndEv(into_i32(tbl, parameter)) >>]

\* set(&self, value, parameter): begin_edit, the write, end_edit
set(tbl, cs, log, value, parameter) ==
    LET log1 == host_begin_edit(log, into_i32(tbl, parameter))
        cs2  == store(tbl, cs, value, parameter)
        log3 == host_end_edit(log1, into_i32(tbl, parameter))
    IN  [cells  |-> cs2,
         host   |-> log3,
         events |-> << BeginEv(into_i32(tbl, parameter)),
                       StoreEv(get_ref(tbl, parameter), value),
                       EndEv(into_i32(tbl, parameter)) >>]

\* Parameters::from(self): the struct of plain values the formatters read
Parameters_from(tbl, cs) == [f \in DOMAIN cs |-> AtomicFloat_get(cs[f])]

\* get_strings(&self, parameter): the row's formatter on the row's field
get_strings(tbl, cs, parameter) ==
    LET params == Parameters_from(tbl, cs)
        r      == tbl[ArmOf(tbl, parameter)]
    IN  make_strings(params[r.field], r.label)

---------------------------------------------------------------------------
(* The PluginParameters facade.                                            *)

get_parameter_label(tbl, cs, index) ==
    LET p == try_from(tbl, index)
    IN  IF p.ok THEN get_strings(tbl, cs, p.val)[2] ELSE ""

get_parameter_text(tbl, cs, index) ==
    LET p == try_from(tbl, index)
    IN  IF p.ok THEN get_strings(tbl, cs, p.val)[1] ELSE ""

get_parameter_name(tbl, index) ==
    LET p == try_from(tbl, index)
    IN  IF p.ok THEN to_string(tbl, p.val) ELSE ""

get_parameter(tbl, cs, index) ==
    LET p == try_from(tbl, index)
    IN  IF p.ok THEN get(tbl, cs, p.val) ELSE PosZero

Unchanged(cs, log) == [cells |-> cs, host |-> log, events |-> << >>]

\* set_parameter comparing bit patterns instead of f32 ==
set_parameter_bits(tbl, cs, log, index, value) ==
    LET p == try_from(tbl, index)
    IN  IF ~p.ok THEN Unchanged(cs, log)
        ELSE IF get(tbl, cs, p.val) = value THEN Unchanged(cs, log)
        ELSE set(tbl, cs, log, value, p.val)

\* set_parameter without the echo check
set_parameter_noecho(tbl, cs, log, index, value) ==
    LET p == try_from(tbl, index)
    IN  IF ~p.ok THEN Unchanged(cs, log)
        ELSE set(tbl, cs, log, value, p.val)

\* set_parameter(&self, index, value): nothing for an index that does not
\* resolve, nothing when the stored value == value, else set(value, parameter)
set_parameter(tbl, cs, log, index, value) ==
    LET p == try_from(tbl, index)
    IN  IF ~p.ok THEN Unchanged(cs, log)
        ELSE IF FloatEq(get(tbl, cs, p.val), value) THEN Unchanged(cs, log)
        ELSE set(tbl, cs, log, value, p.val)

can_be_automated(tbl, index) == try_from(tbl, index).ok

\* string_to_parameter reporting success
string_to_parameter_accepts(index, text) == TRUE

string_to_parameter(index, text) == FALSE

---------------------------------------------------------------------------
(* Spec: one caller, every call of the API one step.                       *)

Threads == {"control", "audio"}
Texts   == {"0.5"}

Call(op, index, id, value, text, resBool, resStr, resF32, events) ==
    [op |-> op, index |-> index, id |-> id, value |-> value, text |-> text,
     resBool |-> resBool, resStr |-> resStr, resF32 |-> resF32,
     events |-> events, again |-> "no"]

\* Whether a call of set_parameter repeats the call just before it, and what
\* that call did.
Again(index, value) ==
    IF last.op = "set_parameter" /\ last.index = index /\ last.value = value
    THEN IF last.events = << >> THEN "after_noop" ELSE "after_write"
    ELSE "no"

Idle == [op |-> "none", index |-> 0, parameter |-> "", value |-> PosZero]

\* The log is cut: a call is taken only while its notifications fit.
Fits(log) == Len(log) <= 2 * MaxEdits

Init ==
    /\ table \in Tables
    /\ cells = default(table)
    /\ hostLog = << >>
    /\ last = Call("default", 0, "", PosZero, "", FALSE, "", PosZero, << >>)
    /\ pc = [t \in Threads |-> "idle"]
    /\ arg = [t \in Threads |-> Idle]
    /\ evs = [t \in Threads |-> << >>]

ReadOnly(call) ==
    /\ last' = call
    /\ UNCHANGED <<table, cells, hostLog, pc, arg, evs>>

Call_get_parameter_label(index) ==
    ReadOnly(Call("get_parameter_label", index, "", PosZero, "", FALSE,
                  get_parameter_label(table, cells, index), PosZero, << >>))

Call_get_parameter_text(index) ==
    ReadOnly(Call("get_parameter_text", index, "", PosZero, "", FALSE,
                  get_parameter_text(table, cells, index), PosZero, << >>))

Call_get_parameter_name(index) ==
    ReadOnly(Call("get_parameter_name", index, "", PosZero, "", FALSE,
                  get_parameter_name(table, index), PosZero, << >>))

Call_get_parameter(index) ==
    ReadOnly(Call("get_parameter", index, "", PosZero, "", FALSE, "",
                  get_parameter(table, cells, index), << >>))

Call_can_be_automated(index) ==
    ReadOnly(Call("can_be_automated", index, "", PosZero, "",
                  can_be_automated(table, index), "", PosZero, << >>))

Call_string_to_parameter(index, text) ==
    ReadOnly(Call("string_to_parameter", index, "", PosZero, text,
                  string_to_parameter(index, text), "", PosZero, << >>))

Call_get(parameter) ==
    ReadOnly(Call("get", 0, parameter, PosZero, "", FALSE, "",
                  get(table, cells, parameter), << >>))

Call_get_default(x) ==
    ReadOnly(Call("get_default", 0, x, PosZero, "", FALSE, "",
                  get_default(table, x), << >>))

Call_get_strings(parameter) ==
    ReadOnly(Call("get_strings", 0, parameter, PosZero, "", FALSE,
                  get_strings(table, cells, parameter)[1], PosZero, << >>))

Call_set_parameter(index, value) ==
    \E r \in {set_parameter(table, cells, hostLog, index, value)} :
        /\ Fits(r.host)
        /\ cells' = r.cells
        /\ hostLog' = r.host
        /\ last' = [Call("set_parameter", index, "", value, "", FALSE, "",
                         PosZero, r.events) EXCEPT !.again = Again(index, value)]
        /\ UNCHANGED <<table, pc, arg, evs>>

Call_set(value, parameter) ==
    \E r \in {set(table, cells, hostLog, value, parameter)} :
        /\ Fits(r.host)
        /\ cells' = r.cells
        /\ hostLog' = r.host
        /\ last' = Call("set", 0, parameter, value, "", FALSE, "", PosZero,
                        r.events)
        /\ UNCHANGED <<table, pc, arg, evs>>

Next ==
    \/ \E index \in IndexRange : Call_get_parameter_label(index)
    \/ \E index \in IndexRange : Call_get_parameter_text(index)
    \/ \E index \in IndexRange : Call_get_parameter_name(index)
    \/ \E index \in IndexRange : Call_get_parameter(index)
    \/ \E index \in IndexRange : Call_can_be_automated(index)
    \/ \E index \in IndexRange, text \in Texts : Call_string_to_parameter(index, text)
    \/ \E parameter \in ParameterId : Call_get(parameter)
    \/ \E x \in ParameterId : Call_get_default(x)
    \/ \E parameter \in ParameterId : Call_get_strings(parameter)
    \/ \E index \in IndexRange, value \in Values : Call_set_parameter(index, value)
    \/ \E value \in Values, parameter \in ParameterId : Call_set(value, parameter)

Spec == Init /\ [][Next]_vars

---------------------------------------------------------------------------
(* SpecConc: two threads on one store, every access of a cell and every    *)
(* host notification one step, in any interleaving.                        *)

Pending(op, index, parameter, value) ==
    [op |-> op, index |-> index, parameter |-> parameter, value |-> value]

\* The threads of SpecConc share one store, built from one of these tables.
ConcTables ==
    { tbl \in Tables :
        tbl[1].idx = 0 /\ tbl[1].default = Half /\ tbl[2].default = PosZero }

\* What each thread calls: the host's control thread sets by index or by
\* identifier, the audio thread reads and sets by identifier.
Setters  == {"control"}
Readers  == {"audio"}
ConcValues == {PosZero, NegZero, Half, NaN}

InitConc ==
    /\ Init
    /\ table \in ConcTables

Begun(log) == Cardinality({ i \in 1 .. Len(log) : log[i].kind = "begin_edit" })

\* The log is cut: a call that may notify is taken only while room is left
\* for it and for every call already on its way to begin_edit.
Room ==
    Begun(hostLog) + Cardinality({ t \in Threads : pc[t] \in {"load", "begin"} })
        < MaxEdits

set_entry == "begin"

\* set() with end_edit before the write
set_next_unbracketed(p) ==
    CASE p = "begin" -> "end"
      [] p = "end"   -> "store"
      [] p = "store" -> "idle"

\* set(): begin_edit, then the write, then end_edit
set_next(p) ==
    CASE p = "begin" -> "store"
      [] p = "store" -> "end"
      [] p = "end"   -> "idle"

\* set_parameter(index, value), up to try_from(index)
T_call_set_parameter(t, index, value) ==
    /\ pc[t] = "idle"
    /\ LET p == try_from(table, index)
       IN  IF p.ok
           THEN /\ Room
                /\ pc' = [pc EXCEPT ![t] = "load"]
                /\ arg' = [arg EXCEPT ![t] = Pending("set_parameter", index, p.val, value)]
           ELSE /\ pc' = pc
                /\ arg' = [arg EXCEPT ![t] = Idle]
    /\ evs' = [evs EXCEPT ![t] = << >>]
    /\ UNCHANGED <<table, cells, hostLog, last>>

\* set_parameter: if self.get(parameter) == value { return; }
T_load(t) ==
    /\ pc[t] = "load"
    /\ pc' = [pc EXCEPT ![t] =
                IF FloatEq(get(table, cells, arg[t].parameter), arg[t].value)
                THEN "idle" ELSE set_entry]
    /\ UNCHANGED <<table, cells, hostLog, last, arg, evs>>

\* set(value, parameter), called directly
T_call_set(t, value, parameter) ==
    /\ pc[t] = "idle"
    /\ Room
    /\ pc' = [pc EXCEPT ![t] = set_entry]
    /\ arg' = [arg EXCEPT ![t] = Pending("set", 0, parameter, value)]
    /\ evs' = [evs EXCEPT ![t] = << >>]
    /\ UNCHANGED <<table, cells, hostLog, last>>

\* self.host.begin_edit(parameter.into())
T_begin_edit(t) ==
    /\ pc[t] = "begin"
    /\ hostLog' = host_begin_edit(hostLog, into_i32(table, arg[t].parameter))
    /\ evs' = [evs EXCEPT ![t] = Append(@, BeginEv(into_i32(table, arg[t].parameter)))]
    /\ pc' = [pc EXCEPT ![t] = set_next("begin")]
    /\ UNCHANGED <<table, cells, last, arg>>

\* the write waiting for the other thread to leave its own bracket
T_store_locked(t) ==
    /\ pc[t] = "store"
    /\ \A u \in Threads \ {t} : pc[u] \notin {"store", "end"}
    /\ cells' = store(table, cells, arg[t].value, arg[t].parameter)
    /\ evs' = [evs EXCEPT ![t] =
                Append(@, StoreEv(get_ref(table, arg[t].parameter), arg[t].value))]
    /\ pc' = [pc EXCEPT ![t] = set_next("store")]
    /\ UNCHANGED <<table, hostLog, last, arg>>

\* self.get_ref(parameter).set(value)
T_store(t) ==
    /\ pc[t] = "store"
    /\ cells' = store(table, cells, arg[t].value, arg[t].parameter)
    /\ evs' = [evs EXCEPT ![t] =
                Append(@, StoreEv(get_ref(table, arg[t].parameter), arg[t].value))]
    /\ pc' = [pc EXCEPT ![t] = set_next("store")]
    /\ UNCHANGED <<table, hostLog, last, arg>>

\* self.host.end_edit(parameter.into())
T_end_edit(t) ==
    /\ pc[t] = "end"
    /\ hostLog' = host_end_edit(hostLog, into_i32(table, arg[t].parameter))
    /\ evs' = [evs EXCEPT ![t] = Append(@, EndEv(into_i32(table, arg[t].parameter)))]
    /\ pc' = [pc EXCEPT ![t] = set_next("end")]
    /\ UNCHANGED <<table, cells, last, arg>>

\* get(parameter): one atomic load
T_get(t, parameter) ==
    /\ pc[t] = "idle"
    /\ arg' = [arg EXCEPT ![t] = Pending("get", 0, parameter, get(table, cells, parameter))]
    /\ evs' = [evs EXCEPT ![t] = << >>]
    /\ UNCHANGED <<table, cells, hostLog, last, pc>>

\* The step thread t takes next inside a call.
Step(t) == T_load(t) \/ T_begin_edit(t) \/ T_store(t) \/ T_end_edit(t)

NextConc ==
    \/ \E t \in Setters, index \in IndexRange, value \in ConcValues :
          T_call_set_parameter(t, index, value)
    \/ \E t \in Threads, value \in ConcValues, parameter \in ParameterId :
          T_call_set(t, value, parameter)
    \/ \E t \in Readers, parameter \in ParameterId : T_get(t, parameter)
    \/ \E t \in Threads : T_load(t)
    \/ \E t \in Threads : T_begin_edit(t)
    \/ \E t \in Threads : T_store(t)
    \/ \E t \in Threads : T_end_edit(t)

SpecConc == InitConc /\ [][NextConc]_vars

---------------------------------------------------------------------------
(* The claims.  What the table says, read off its rows and not through the *)
(* generated conversions:                                                  *)

InTable(i)  == \E k \in 1 .. Len(table) : table[k].idx = i
IdAt(i)     == (CHOOSE r \in { table[k] : k \in 1 .. Len(table) } : r.idx = i).variant
RowOf(id)   == CHOOSE r \in { table[k] : k \in 1 .. Len(table) } : r.variant = id
IdxOf(id)   == RowOf(id).idx
FieldOf(id) == RowOf(id).field

Notifications(events) ==
    Cardinality({ i \in 1 .. Len(events) : events[i].kind = "begin_edit" })

NoEffect ==
    /\ cells' = cells
    /\ hostLog' = hostLog
    /\ last'.events = << >>

\* set_parameter(index, value) made right after set_parameter(index, value),
\* index in the table.
SecondCall ==
    /\ last.op = "set_parameter"
    /\ last'.op = "set_parameter"
    /\ last'.index = last.index
    /\ last'.value = last.value
    /\ InTable(last.index)

\* C1 as stated: for every valid index and every value, the second of two
\* consecutive identical set_parameter calls changes no stored value and
\* notifies the host not at all, so the pair notifies at most once.
C1_SecondCallSuppressed_AnyValue ==
    [][SecondCall =>
        /\ NoEffect
        /\ Notifications(last.events) + Notifications(last'.events) <= 1]_vars

\* C1 amended: the same for every value that is not NaN.
C1_SecondCallSuppressed ==
    [][(SecondCall /\ ~IsNaN(last.value)) =>
        /\ NoEffect
        /\ Notifications(last.events) + Notifications(last'.events) <= 1]_vars

\* The second call of a pair was suppressed after the first one wrote.
C1_Witness ==
    /\ last.op = "set_parameter"
    /\ last.again = "after_write"
    /\ InTable(last.index)
    /\ ~IsNaN(last.value)
    /\ last.events = << >>
    /\ Len(hostLog) = 2

\* The events of a set(value, parameter) that has taken n of its steps.
Bracket(parameter, value) ==
    << BeginEv(IdxOf(parameter)),
       StoreEv(FieldOf(parameter), value),
       EndEv(IdxOf(parameter)) >>

StepsTaken(t) ==
    CASE pc[t] = "begin" -> 0
      [] pc[t] = "store" -> 1
      [] pc[t] = "end"   -> 2
      [] OTHER           -> 3

InSet(t) ==
    \/ arg[t].op = "set"
    \/ arg[t].op = "set_parameter" /\ pc[t] \in {"begin", "store", "end"}
    \/ arg[t].op = "set_parameter" /\ pc[t] = "idle" /\ evs[t] # << >>

\* C2: a call set(value, parameter) does, in this order, one begin_edit of the
\* parameter's index, one write of value to the parameter's cell, one end_edit
\* of the same index, and nothing else: at every point of the call what it has
\* done is a prefix of that bracket, and the whole of it on return.
C2_EditBracket ==
    \A t \in Threads :
        InSet(t) =>
            evs[t] = SubSeq(Bracket(arg[t].parameter, arg[t].value), 1, StepsTaken(t))

\* Both threads have returned from a set, and their brackets interleaved.
C2_Witness ==
    /\ \A t \in Threads : InSet(t) /\ pc[t] = "idle" /\ Len(evs[t]) = 3
    /\ arg["control"].parameter # arg["audio"].parameter
    /\ hostLog[1].kind = "begin_edit"
    /\ hostLog[2].kind = "begin_edit"

\* C3: for an index the table does not hold, can_be_automated is false, the
\* label, the text and the name are empty, get_parameter is 0.0 and
\* set_parameter changes no stored value and notifies nobody; for an index the
\* table holds, can_be_automated is true.
C3_OutOfRange ==
    [][/\ last'.op = "can_be_automated" => (last'.resBool <=> InTable(last'.index))
       /\ ~InTable(last'.index) =>
            /\ last'.op \in {"get_parameter_label", "get_parameter_text",
                             "get_parameter_name"} => last'.resStr = ""
            /\ last'.op = "get_parameter" => last'.resF32 = PosZero
            /\ last'.op = "set_parameter" => NoEffect]_vars

\* set_parameter with an index between two rows of a sparse table.
C3_Witness ==
    /\ last.op = "set_parameter"
    /\ ~InTable(last.index)
    /\ InTable(last.index - 1)
    /\ InTable(last.index + 1)
    /\ last.value = Half
    /\ last.events = << >>

AllInUnit(cs) == \A f \in DOMAIN cs : InUnit(cs[f])

\* C4 as stated: every stored value is within [0.0, 1.0], whatever values the
\* calls passed.
C4_AlwaysInUnit == AllInUnit(cells)

\* C4 amended: the stored values are within [0.0, 1.0] after construction, and
\* stay so over every call that passes a value within [0.0, 1.0].
C4_InUnitWhileArgsInUnit ==
    /\ AllInUnit(cells)
    /\ [][(/\ AllInUnit(cells)
           /\ last'.op \in {"set", "set_parameter"} => InUnit(last'.value))
          => AllInUnit(cells')]_vars

\* A normalized value was written by set.
C4_Witness ==
    /\ last.op = "set"
    /\ last.value = Half
    /\ last.events # << >>
    /\ cells[FieldOf(last.id)] = Half
    /\ AllInUnit(cells)

ProbeRange == (0 - 2) .. (MaxIndex + 2)

\* C5: try_from(into(id)) is Ok(id) for every id, and try_from is Ok only for
\* an index that is into(id) of some id.
C5_Bijection ==
    /\ \A id \in ParameterId : try_from(table, into_i32(table, id)) = Ok(id)
    /\ \A x \in ProbeRange :
          try_from(table, x).ok => \E id \in ParameterId : into_i32(table, id) = x

\* A sparse table whose rows are not in the order of their indices, consulted.
C5_Witness ==
    /\ table[1].idx > table[2].idx + 1
    /\ last.op = "get_parameter_name"
    /\ last.index = table[1].idx
    /\ last.resStr = table[1].name

\* C6: right after default(host), get(id) is get_default(id), the default of
\* id's row, for every id, and the host has been notified of nothing.
C6_DefaultInit ==
    last.op = "default" =>
        /\ \A id \in ParameterId :
              /\ get(table, cells, id) = get_default(table, id)
              /\ get(table, cells, id) = RowOf(id).default
        /\ hostLog = << >>

\* A freshly built store whose parameters have different defaults.
C6_Witness ==
    /\ last.op = "default"
    /\ get(table, cells, "Volume") = Half
    /\ get(table, cells, "Pan") = PosZero

\* Two f32 taken as the same: by their bits, or by f32 ==.
Same(bitwise, a, b) == IF bitwise THEN a = b ELSE FloatEq(a, b)

\* set_parameter on an index of the table: a no-op exactly when Same holds of
\* the stored value and the value passed, and set(value, parameter) otherwise.
EchoRule(bitwise) ==
    (last'.op = "set_parameter" /\ InTable(last'.index)) =>
        LET id == IdAt(last'.index)
            r  == set(table, cells, hostLog, last'.value, id)
        IN  IF Same(bitwise, get(table, cells, id), last'.value)
            THEN NoEffect
            ELSE /\ cells' = r.cells
                 /\ hostLog' = r.host
                 /\ last'.events = r.events


\* C7 as stated: the call is a no-op exactly when the stored value and value
\* are the same bit pattern.
C7_BitExactEcho == [][EchoRule(TRUE)]_vars

\* C7 amended: the call is a no-op exactly when the stored value == value as
\* f32, without tolerance: +0.0 and -0.0 are equal, NaN equals nothing.
C7_FloatEqEcho == [][EchoRule(FALSE)]_vars

\* -0.0 passed over a stored +0.0: suppressed, though the bits differ.
C7_Witness ==
    /\ last.op = "set_parameter"
    /\ InTable(last.index)
    /\ last.value = NegZero
    /\ last.events = << >>
    /\ get(table, cells, IdAt(last.index)) = PosZero

\* A thread inside a call can always take its next step, whatever the other
\* thread is doing.
NonBlocking == \A t \in Threads : pc[t] # "idle" => ENABLED Step(t)

\* A cell changes only by a write addressed to it, to the value written.
OnlyOwnWrites ==
    \A f \in DOMAIN cells :
        cells'[f] # cells[f] =>
            \E t \in Threads :
                /\ pc[t] = "store"
                /\ FieldOf(arg[t].parameter) = f
                /\ cells'[f] = arg[t].value

\* The write of a set on one parameter leaves every other cell as it was.
OthersUntouched ==
    \A t \in Threads :
        (pc[t] = "store" /\ pc'[t] # pc[t]) =>
            \A f \in DOMAIN cells :
                f # FieldOf(arg[t].parameter) => cells'[f] = cells[f]

\* C8: with two threads on the store in any interleaving, no step of a call
\* waits for the other thread, and a cell is changed only by the writes
\* addressed to it: a set on one parameter leaves the other cells unchanged.
C8_Independence == []NonBlocking /\ [][OnlyOwnWrites /\ OthersUntouched]_vars

\* The control thread is inside the bracket of a set on Volume, before its
\* write, and the audio thread has meanwhile completed a set on Pan.
C8_Witness ==
    /\ pc["control"] = "store"
    /\ arg["control"].parameter = "Volume"
    /\ pc["audio"] = "idle"
    /\ arg["audio"].op = "set"
    /\ arg["audio"].parameter = "Pan"
    /\ Len(evs["audio"]) = 3
    /\ Len(hostLog) = 3
    /\ hostLog[1].index = IdxOf("Volume")
    /\ cells["pan"] = arg["audio"].value
    /\ cells["pan"] # PosZero
    /\ cells["volume"] = Half

AfterSetParameter == last.op = "set_parameter" /\ InTable(last.index)

\* C9 as stated: after set_parameter(i, v) on an index of the table,
\* get_parameter(i) is v, the value passed, written or suppressed.
C9_RoundTripBits ==
    AfterSetParameter => get_parameter(table, cells, last.index) = last.value

\* C9 amended: after set_parameter(i, v) on an index of the table,
\* get_parameter(i) is v bit for bit when the call wrote the cell, and a value
\* that == v as f32 when the call was suppressed as an echo (the zero of the
\* other sign may come back).
C9_RoundTrip ==
    AfterSetParameter =>
        IF last.events # << >>
        THEN get_parameter(table, cells, last.index) = last.value
        ELSE FloatEq(get_parameter(table, cells, last.index), last.value)

\* NaN went through the store and came back bit for bit.
C9_Witness ==
    /\ last.op = "set_parameter"
    /\ InTable(last.index)
    /\ last.value = NaN
    /\ last.events # << >>
    /\ get_parameter(table, cells, last.index) = NaN

ReadOnlyOps ==
    {"get", "get_strings", "get_default", "get_parameter_label",
     "get_parameter_text", "get_parameter_name", "get_parameter",
     "can_be_automated", "string_to_parameter"}

\* C10: the getters, can_be_automated and string_to_parameter (which returns
\* false) change no stored value and notify nobody, for every argument; the
\* state changes only by set and by a set_parameter on an index of the table
\* whose value is not == the stored one.
C10_ReadOnly ==
    [][/\ last'.op \in ReadOnlyOps => NoEffect
       /\ last'.op = "string_to_parameter" => last'.resBool = FALSE
       /\ (cells' # cells \/ hostLog' # hostLog) =>
            \/ last'.op = "set"
            \/ /\ last'.op = "set_parameter"
               /\ InTable(last'.index)
               /\ ~FloatEq(get(table, cells, IdAt(last'.index)), last'.value)]_vars

\* A getter that read a stored NaN, after the one edit that wrote it.
C10_Witness ==
    /\ last.op = "get_parameter_text"
    /\ InTable(last.index)
    /\ last.resStr = "NaN"
    /\ Len(hostLog) = 2

===========================================================================
